---- MODULE Spec2Model ----
(***************************************************************************)
(* TicTacToe on DynamoDB: the Games table, the GameController's calls on   *)
(* it and the Flask handlers that drive them, as interleaved request       *)
(* handlers.  Every handler that reads the table and then writes it is two *)
(* steps (the read, the conditional write), so that other requests         *)
(* interleave between them.  An item is a function from the names of the   *)
(* attributes it holds to their values; datetime.now() is an input of the  *)
(* step that reads it, since the servers' clocks are not one clock.        *)
(***************************************************************************)
EXTENDS Integers, Sequences, FiniteSets, Bags, TLC

VARIABLES
    store,    \* the Games table: GameId -> item (attribute name -> value)
    created,  \* the GameIds uuid4 has handed out so far
    reqs,     \* the request handlers in flight, between their read and their write
    moved,    \* history: <<GameId, position>> -> updateBoardAndTurn calls returning True
    answered  \* history: GameId -> accept/rejectGameInvite calls returning True

vars == <<store, created, reqs, moved, answered>>

history == <<moved, answered>>

-----------------------------------------------------------------------------
\* Bounds of the model

MaxProcs == 2      \* request handlers in flight at once
MaxDate == 1       \* datetime.now() ranges over 0..MaxDate

\* session["username"] of a logged-in caller; carol takes part in no game
Users == {"alice", "bob", "carol"}
\* who submits the create form, and the invitee names typed into it
Creators == {"alice"}
Invitees == {"", "alice", "bob"}
\* the GameIds uuid4 may produce, and the ones a request may name
AllGameIds == {"g1"}

-----------------------------------------------------------------------------
\* Items

None == "<None>"

EmptyItem == [a \in {} |-> None]

\* Item.__getitem__: a missing attribute reads as None
Get(item, a) == IF a \in DOMAIN item THEN item[a] ELSE None

SetAttr(item, a, v) == [x \in (DOMAIN item) \cup {a} |-> IF x = a THEN v ELSE item[x]]

\* "STATUS_" + str(datetime.now())
StatusDate(status, date) == [status |-> status, date |-> date]

\* BEGINS_WITH "PENDING_" / "IN_PROGRESS_" / "FINISHED_" on a StatusDate value
BeginsWith(item, status) ==
    /\ "StatusDate" \in DOMAIN item
    /\ item["StatusDate"].status = status

\* what the table holds under a key: the item, or nothing
Stored(g) == IF g \in DOMAIN store THEN store[g] ELSE EmptyItem

squares ==
    << "TopLeft", "TopMiddle", "TopRight",
       "MiddleLeft", "MiddleMiddle", "MiddleRight",
       "BottomLeft", "BottomMiddle", "BottomRight" >>

Squares == {squares[i] : i \in 1..9}

getBoardState(item) ==
    [i \in 1..9 |-> IF Get(item, squares[i]) # None THEN item[squares[i]] ELSE " "]

\* faulty variant: the diagonals are not looked at
winConditionsNoDiagonal ==
    << <<0,3,6>>, <<0,1,2>>,
       <<1,4,7>>, <<2,5,8>>,
       <<3,4,5>>, <<6,7,8>> >>

winConditions ==
    << <<0,3,6>>, <<0,1,2>>, <<0,4,8>>,
       <<1,4,7>>, <<2,5,8>>, <<2,4,6>>,
       <<3,4,5>>, <<6,7,8>> >>

Line(board, w, marker) ==
    /\ board[w[1] + 1] = marker
    /\ board[w[2] + 1] = marker
    /\ board[w[3] + 1] = marker

\* faulty variant: every line is looked at for the caller's marker before any
\* is looked at for the other marker
checkLinesOwnFirst(board, yourMarker, theirMarker, k) ==
    IF \E i \in k..Len(winConditions) : Line(board, winConditions[i], yourMarker)
    THEN "Win"
    ELSE IF \E i \in k..Len(winConditions) : Line(board, winConditions[i], theirMarker)
    THEN "Lose"
    ELSE None

RECURSIVE checkLines(_, _, _, _)
checkLines(board, yourMarker, theirMarker, k) ==
    IF k > Len(winConditions) THEN None
    ELSE IF Line(board, winConditions[k], yourMarker) THEN "Win"
    ELSE IF Line(board, winConditions[k], theirMarker) THEN "Lose"
    ELSE checkLines(board, yourMarker, theirMarker, k + 1)

checkForGameResult(board, item, current_player) ==
    LET yourMarker  == IF current_player = item["OUser"] THEN "O" ELSE "X"
        theirMarker == IF yourMarker = "O" THEN "X" ELSE "O"
        line        == checkLines(board, yourMarker, theirMarker, 1)
    IN  IF line # None THEN line
        ELSE IF \A i \in 1..9 : board[i] # " " THEN "Tie"
        ELSE None

-----------------------------------------------------------------------------
\* Request handlers

\* a handler in flight: where it is and the locals it goes on to read
Request(pc, item, user, pos, result) ==
    [pc |-> pc, item |-> item, user |-> user, pos |-> pos, result |-> result]

InFlight == BagToSet(reqs)

\* a worker is free to take a request; limit bounds the requests of its kind
Free(kind, limit) ==
    /\ BagCardinality(reqs) < MaxProcs
    /\ BagCardinality([r \in {x \in InFlight : x.pc \in kind} |-> reqs[r]]) < limit

\* the handler has read the table and goes on to its write
Begin(r) == reqs' = reqs (+) SetToBag({r})

\* the handler returns its response
Return(r) == reqs' = reqs (-) SetToBag({r})

Writers == {"accept", "reject", "select"}
Viewers == {"finish"}

Init ==
    /\ store = [g \in {} |-> EmptyItem]
    /\ created = {}
    /\ reqs = EmptyBag
    /\ moved = [k \in {} |-> 0]
    /\ answered = [k \in {} |-> 0]

\* faulty variant: the first turn is the creator's
NewGameTurnHost(gameId, creator, invitee, now) ==
    [GameId |-> gameId, HostId |-> creator,
     StatusDate |-> StatusDate("PENDING", now),
     OUser |-> creator, Turn |-> creator, OpponentId |-> invitee]

\* GameController.createNewGame: Item(...).save() of a new item expects none of
\* its attributes to exist under the key
NewGame(gameId, creator, invitee, now) ==
    [GameId |-> gameId, HostId |-> creator,
     StatusDate |-> StatusDate("PENDING", now),
     OUser |-> creator, Turn |-> invitee, OpponentId |-> invitee]

\* faulty variant: the invitee name is not validated
PlayUnchecked(W, creator, invitee, gameId, now) ==
    /\ Free(Writers, W)
    /\ gameId \notin created
    /\ created' = created \cup {gameId}
    /\ store' = [g \in (DOMAIN store) \cup {gameId} |->
                  IF g = gameId THEN NewGame(gameId, creator, invitee, now)
                  ELSE store[g]]
    /\ UNCHANGED <<reqs, history>>

\* play(): the create form
Play(W, creator, invitee, gameId, now) ==
    /\ Free(Writers, W)
    /\ gameId \notin created
    /\ IF invitee = "" \/ creator = invitee
       THEN UNCHANGED <<store, created>>
       ELSE /\ created' = created \cup {gameId}
            /\ store' = [g \in (DOMAIN store) \cup {gameId} |->
                          IF g = gameId THEN NewGame(gameId, creator, invitee, now)
                          ELSE store[g]]
    /\ UNCHANGED <<reqs, history>>

\* the legacy "expected" conditions of update_item, delete_item and put_item
Expect(op, value) == [op |-> op, value |-> value]

ExpectationHolds(item, a, e) ==
    CASE e.op = "BEGINS_WITH" -> BeginsWith(item, e.value) /\ a = "StatusDate"
      [] e.op = "EQ"          -> a \in DOMAIN item /\ item[a] = e.value
      [] e.op = "NOT_EXISTS"  -> a \notin DOMAIN item

\* every condition must hold (ConditionalOperator defaults to AND); otherwise
\* DynamoDB raises ConditionalCheckFailedException and writes nothing
ConditionsHold(item, expected) ==
    \A a \in DOMAIN expected : ExpectationHolds(item, a, expected[a])

\* update_item with PUT actions: writes the named attributes of the item under
\* the key, creating the item when the key holds none
UpdatedItem(g, updates) ==
    LET cur == SetAttr(Stored(g), "GameId", g)
    IN  [a \in (DOMAIN cur) \cup (DOMAIN updates) |->
            IF a \in DOMAIN updates THEN updates[a] ELSE cur[a]]

WriteItem(g, item) ==
    store' = [k \in (DOMAIN store) \cup {g} |-> IF k = g THEN item ELSE store[k]]

DeleteItem(g) ==
    store' = [k \in (DOMAIN store) \ {g} |-> store[k]]

\* a dict literal {k1: v1, k2: v2, ...}: a later entry replaces an earlier one
\* with the same key
RECURSIVE Dict(_)
Dict(entries) ==
    IF entries = <<>> THEN EmptyItem
    ELSE LET n == Len(entries)
         IN  SetAttr(Dict(SubSeq(entries, 1, n - 1)), entries[n][1], entries[n][2])

\* the attributes of the item a handler goes on to read
Project(item, attrs) == [a \in (DOMAIN item) \cap attrs |-> item[a]]

\* a history counter, one more for key
Count(f, key) == IF key \in DOMAIN f THEN f[key] ELSE 0

Counted(f, key) ==
    [k \in (DOMAIN f) \cup {key} |-> IF k = key THEN Count(f, key) + 1 ELSE f[k]]

\* accept(): getGame, then acceptGameInvite.  A missing game is flashed, but the
\* redirect is not returned and the handler fails on game["GameId"].
AcceptRead(W, g) ==
    /\ Free(Writers, W)
    /\ IF g \in DOMAIN store
       THEN Begin(Request("accept", Project(store[g], {"GameId"}), None, None, None))
       ELSE UNCHANGED reqs
    /\ UNCHANGED <<store, created, history>>

\* faulty variant: the update is not conditional
acceptExpectationsNone == EmptyItem

acceptExpectations == Dict(<< <<"StatusDate", Expect("BEGINS_WITH", "PENDING")>> >>)

\* what acceptGameInvite returns: False on ConditionalCheckFailedException
acceptGameInviteReturns(r) ==
    ConditionsHold(Stored(r.item["GameId"]), acceptExpectations)

\* faulty variant: accepting also hands the turn to the host
acceptGameInviteTakesTurn(r, now) ==
    LET g == r.item["GameId"]
        updates == Dict(<< <<"StatusDate", StatusDate("IN_PROGRESS", now)>>,
                           <<"Turn", Stored(g)["HostId"]>> >>)
    IN  IF acceptGameInviteReturns(r)
        THEN /\ WriteItem(g, UpdatedItem(g, updates))
             /\ answered' = Counted(answered, g)
        ELSE UNCHANGED <<store, answered>>

acceptGameInvite(r, now) ==
    LET g == r.item["GameId"]
        updates == Dict(<< <<"StatusDate", StatusDate("IN_PROGRESS", now)>> >>)
    IN  IF acceptGameInviteReturns(r)
        THEN /\ WriteItem(g, UpdatedItem(g, updates))
             /\ answered' = Counted(answered, g)
        ELSE UNCHANGED <<store, answered>>

AcceptUpdate(r, now) ==
    /\ r \in InFlight
    /\ r.pc = "accept"
    /\ acceptGameInvite(r, now)
    /\ Return(r)
    /\ UNCHANGED <<created, moved>>

\* reject(): getGame, then rejectGameInvite
RejectRead(W, g) ==
    /\ Free(Writers, W)
    /\ IF g \in DOMAIN store
       THEN Begin(Request("reject", Project(store[g], {"GameId"}), None, None, None))
       ELSE UNCHANGED reqs
    /\ UNCHANGED <<store, created, history>>

\* faulty variant: the delete is not conditional
rejectExpectationNone == EmptyItem

rejectExpectation == Dict(<< <<"StatusDate", Expect("BEGINS_WITH", "PENDING")>> >>)

\* what rejectGameInvite returns: False on any exception
rejectGameInviteReturns(r) ==
    ConditionsHold(Stored(r.item["GameId"]), rejectExpectation)

rejectGameInvite(r) ==
    LET g == r.item["GameId"]
    IN  IF rejectGameInviteReturns(r)
        THEN /\ DeleteItem(g)
             /\ answered' = Counted(answered, g)
        ELSE UNCHANGED <<store, answered>>

RejectDelete(r) ==
    /\ r \in InFlight
    /\ r.pc = "reject"
    /\ rejectGameInvite(r)
    /\ Return(r)
    /\ UNCHANGED <<created, moved>>

\* selectSquare(): getGame, then updateBoardAndTurn with the posted cell name
SelectRead(W, g, value, username) ==
    /\ Free(Writers, W)
    /\ IF g \in DOMAIN store
       THEN Begin(Request("select",
                          Project(store[g], {"GameId", "HostId", "OpponentId", "OUser"}),
                          username, value, None))
       ELSE UNCHANGED reqs
    /\ UNCHANGED <<store, created, history>>

\* faulty variant: the turn stays with the mover
moveUpdatesSameTurn(item, position, current_player) ==
    LET representation == IF item["OUser"] = current_player THEN "O" ELSE "X"
    IN  Dict(<< <<position, representation>>, <<"Turn", current_player>> >>)

moveUpdates(item, position, current_player) ==
    LET representation == IF item["OUser"] = current_player THEN "O" ELSE "X"
        next_player == IF current_player = item["HostId"]
                       THEN item["OpponentId"] ELSE item["HostId"]
    IN  Dict(<< <<position, representation>>, <<"Turn", next_player>> >>)

\* faulty variant: the cell is not expected to be empty
moveExpectationsNoCell(position, current_player) ==
    Dict(<< <<"StatusDate", Expect("BEGINS_WITH", "IN_PROGRESS")>>,
            <<"Turn", Expect("EQ", current_player)>> >>)

\* faulty variant: the turn is not expected to be the mover's
moveExpectationsNoTurn(position, current_player) ==
    Dict(<< <<"StatusDate", Expect("BEGINS_WITH", "IN_PROGRESS")>>,
            <<position, Expect("NOT_EXISTS", None)>> >>)

moveExpectations(position, current_player) ==
    Dict(<< <<"StatusDate", Expect("BEGINS_WITH", "IN_PROGRESS")>>,
            <<"Turn", Expect("EQ", current_player)>>,
            <<position, Expect("NOT_EXISTS", None)>> >>)

\* what updateBoardAndTurn returns: False on ConditionalCheckFailedException
updateBoardAndTurnReturns(r) ==
    ConditionsHold(Stored(r.item["GameId"]),
                   moveExpectations(r.pos, r.user))

updateBoardAndTurn(r) ==
    LET item == r.item
        g == item["GameId"]
    IN  IF updateBoardAndTurnReturns(r)
        THEN /\ WriteItem(g, UpdatedItem(g, moveUpdates(item, r.pos, r.user)))
             /\ moved' = Counted(moved, <<g, r.pos>>)
        ELSE UNCHANGED <<store, moved>>

SelectUpdate(r) ==
    /\ r \in InFlight
    /\ r.pc = "select"
    /\ updateBoardAndTurn(r)
    /\ Return(r)
    /\ UNCHANGED <<created, answered>>

\* game(): getGame, getBoardState and checkForGameResult; on a terminal board
\* changeGameToFinishedState follows as the second step
GameRead(V, g, username) ==
    /\ Free(Viewers, V)
    /\ IF g \notin DOMAIN store
       THEN UNCHANGED reqs
       ELSE LET item == store[g]
                result == checkForGameResult(getBoardState(item), item, username)
            IN  IF result = None
                THEN UNCHANGED reqs
                ELSE Begin(Request("finish", item, username, None, result))
    /\ UNCHANGED <<store, created, history>>

\* the attributes changeGameToFinishedState sets on the item before item.save()
finishedData(item, result, current_user, now) ==
    LET winner == IF result = "Tie" THEN "Tie"
                  ELSE IF result = "Win" THEN current_user
                  ELSE IF item["HostId"] = current_user
                       THEN item["OpponentId"] ELSE item["HostId"]
    IN  Dict(<< <<"StatusDate", StatusDate("FINISHED", now)>>,
                <<"Turn", "N/A">>,
                <<"Result", winner>> >>)

\* faulty variant: item.save(overwrite=True), which expects nothing
buildExpectsOverwrite(orig, data) == EmptyItem

\* Item.build_expects: an attribute the item was read with must still hold the
\* value read, an attribute added since must not exist
buildExpects(orig, data) ==
    [a \in (DOMAIN orig) \cup (DOMAIN data) |->
        IF a \in DOMAIN orig THEN Expect("EQ", orig[a]) ELSE Expect("NOT_EXISTS", None)]

\* the item read, with the attributes set since
Changed(orig, changes) ==
    [a \in (DOMAIN orig) \cup (DOMAIN changes) |->
        IF a \in DOMAIN changes THEN changes[a] ELSE orig[a]]

\* faulty variant: no early return for an item that holds a Result
alreadyFinishedNever(item) == FALSE

\* whether changeGameToFinishedState returns at once, the item holding a Result
alreadyFinished(item) == Get(item, "Result") # None

\* what changeGameToFinishedState does: "True" (returned at once, or the save
\* went through) or "raise" (item.save() met a failed expectation, which
\* nothing catches)
changeGameToFinishedStateReturns(r, now) ==
    LET orig == r.item
        data == Changed(orig, finishedData(orig, r.result, r.user, now))
    IN  IF alreadyFinished(orig) THEN "True"
        ELSE IF ConditionsHold(Stored(orig["GameId"]), buildExpects(orig, data))
             THEN "True" ELSE "raise"

\* Item.save(): put_item of the whole item under its expectations
changeGameToFinishedState(r, now) ==
    LET orig == r.item
        data == Changed(orig, finishedData(orig, r.result, r.user, now))
    IN  IF ~alreadyFinished(orig) /\ changeGameToFinishedStateReturns(r, now) = "True"
        THEN WriteItem(orig["GameId"], data)
        ELSE UNCHANGED store

GameFinish(r, now) ==
    /\ r \in InFlight
    /\ r.pc = "finish"
    /\ changeGameToFinishedState(r, now)
    /\ Return(r)
    /\ UNCHANGED <<created, history>>

----------------------------------------------------------------------------
\* datetime.now(), as some request handler on some server reads it
Dates == 0..MaxDate

\* One step of some request handler.  W: how many create, accept, reject and
\* select requests may be in flight; V: how many game pages; G: the GameIds
\* requests name; Pos: the cell names select requests post; U: the logged-in
\* users
Step(W, V, G, Pos, U) ==
    \/ \E c \in Creators, i \in Invitees, g \in G, now \in Dates : Play(W, c, i, g, now)
    \/ \E g \in G : AcceptRead(W, g)
    \/ \E r \in InFlight, now \in Dates : AcceptUpdate(r, now)
    \/ \E g \in G : RejectRead(W, g)
    \/ \E r \in InFlight : RejectDelete(r)
    \/ \E g \in G, v \in Pos, u \in U : SelectRead(W, g, v, u)
    \/ \E r \in InFlight : SelectUpdate(r)
    \/ \E g \in G, u \in U : GameRead(V, g, u)
    \/ \E r \in InFlight, now \in Dates : GameFinish(r, now)

\* Every worker serves every request; the cells of the top row and two of the
\* middle row, and the name of an attribute that is no cell
Positions == {squares[i] : i \in 1..5} \cup {"Turn"}

Next == Step(MaxProcs, MaxProcs, AllGameIds, Positions, Users)

Spec == Init /\ [][Next]_vars

\* One select worker and one game page worker, on the top two rows and a cell
\* of the bottom row: room for two more moves after a completed top row
StalePositions == {squares[i] : i \in 1..7}

NextStale == Step(1, 1, AllGameIds, StalePositions, Users)

SpecStale == Init /\ [][NextStale]_vars

\* The posted cell name is any string: cells of the top row, and attribute
\* names that are no cell
FormPositions == {squares[i] : i \in 1..3} \cup {"Turn", "Result", "StatusDate", "Note"}

NextForm == Step(MaxProcs, 1, AllGameIds, FormPositions, Users)

SpecForm == Init /\ [][NextForm]_vars

\* Two games: invites are sent, accepted and rejected for both, moves and game
\* pages are requested for the first; the posted cell names are five squares
\* and the name of an attribute that is no cell
TwoGameIds == {"g1", "g2"}

TwoPositions == {squares[i] : i \in 1..5} \cup {"OpponentId"}

NextTwo ==
    \/ \E c \in Creators, i \in Invitees, g \in TwoGameIds, now \in Dates :
            Play(1, c, i, g, now)
    \/ \E g \in TwoGameIds : AcceptRead(1, g)
    \/ \E r \in InFlight, now \in Dates : AcceptUpdate(r, now)
    \/ \E g \in TwoGameIds : RejectRead(1, g)
    \/ \E r \in InFlight : RejectDelete(r)
    \/ \E v \in TwoPositions, u \in Users : SelectRead(1, "g1", v, u)
    \/ \E r \in InFlight : SelectUpdate(r)
    \/ \E u \in Users : GameRead(1, "g1", u)
    \/ \E r \in InFlight, now \in Dates : GameFinish(r, now)

SpecTwo == Init /\ [][NextTwo]_vars

\* The index page: the invites of the session user and the user's games in
\* progress and finished

\* limit=10, range(10) and [:10]
PageSize == 10

\* the GameIds of the games listed, in the order uuid4 hands them out (which
\* fresh id a game gets is of no matter to any handler)
gameIds ==
    << "g1", "g2", "g3", "g4", "g5", "g6", "g7", "g8", "g9", "g10", "g11", "g12" >>

IdOrd(g) == CHOOSE i \in 1..Len(gameIds) : gameIds[i] = g

Take(s, n) == SubSeq(s, 1, IF Len(s) < n THEN Len(s) ELSE n)

\* the items of a global secondary index under a hash key whose StatusDate
\* begins with a status
Matching(key, user, status) ==
    {g \in DOMAIN store : Get(store[g], key) = user /\ BeginsWith(store[g], status)}

\* faulty variant: the index is read forwards
NewerForward(g, h) ==
    \/ store[g]["StatusDate"].date < store[h]["StatusDate"].date
    \/ /\ store[g]["StatusDate"].date = store[h]["StatusDate"].date
       /\ IdOrd(g) < IdOrd(h)

\* the order of the index: by StatusDate, the later first (Table.query reads
\* the index backwards unless told reverse=True); DynamoDB leaves the order
\* of equal StatusDates open, here it is the order of the GameIds
Newer(g, h) ==
    \/ store[g]["StatusDate"].date > store[h]["StatusDate"].date
    \/ /\ store[g]["StatusDate"].date = store[h]["StatusDate"].date
       /\ IdOrd(g) < IdOrd(h)

RECURSIVE Ordered(_)
Ordered(S) ==
    IF S = {} THEN << >>
    ELSE LET g == CHOOSE g \in S : \A h \in S \ {g} : Newer(g, h)
         IN  << store[g] >> \o Ordered(S \ {g})

\* Table.query(<key>__eq=user, StatusDate__beginswith=status, index=...,
\* limit=limit): at most limit items
Query(key, user, status, limit) ==
    Take(Ordered(Matching(key, user, status)), limit)

\* the loop takes up to ten items from the query
getGameInvites(user) ==
    IF user = None THEN << >>
    ELSE Take(Query("OpponentId", user, "PENDING", PageSize), PageSize)

Perms(s) ==
    LET n == Len(s)
    IN  {[i \in 1..n |-> s[f[i]]] :
            f \in {f \in [1..n -> 1..n] : \A i, j \in 1..n : f[i] = f[j] => i = j}}

\* what a call comes to: the value it returns, or the exception it raises
Returns(value) == [raises |-> None, value |-> value]

Raises(exception) == [raises |-> exception, value |-> << >>]

\* games.sort(reverse=True) on a list of boto Items, which define no order:
\* two or more raise TypeError under Python 3 and come out in the order of
\* their addresses under Python 2
sortReverse(games) ==
    IF Len(games) <= 1 THEN {Returns(games)}
    ELSE {Raises("TypeError")} \cup {Returns(sorted) : sorted \in Perms(games)}

\* what getGamesWithStatus may come to
getGamesWithStatus(user, status) ==
    IF user = None THEN {Returns(<< >>)}
    ELSE LET hostGames == Query("HostId", user, status, PageSize)
             oppGames  == Query("OpponentId", user, status, PageSize)
         IN  {IF games.raises # None THEN games
              ELSE Returns(Take(games.value, PageSize)) :
                 games \in sortReverse(hostGames \o oppGames)}

\* what index() may come to for the session user: the three listings it
\* renders, or the exception of a listing
indexPages(user) ==
    {IF inProgressGames.raises # None THEN inProgressGames
     ELSE IF finishedGames.raises # None THEN finishedGames
     ELSE Returns([invites |-> getGameInvites(user),
                   inprogress |-> inProgressGames.value,
                   finished |-> finishedGames.value]) :
        inProgressGames \in getGamesWithStatus(user, "IN_PROGRESS"),
        finishedGames \in getGamesWithStatus(user, "FINISHED")}

Pages == {"index"}

\* index(): the three listings, read for the session user (None when nobody
\* is logged in)
Index(V, user) ==
    /\ Free(Pages, V)
    /\ \E page \in indexPages(user) :
          Begin(Request("index", EmptyItem, user, None, page))
    /\ UNCHANGED <<store, created, history>>

\* the page is rendered, or the request fails
Render(r) ==
    /\ r \in InFlight
    /\ r.pc = "index"
    /\ Return(r)
    /\ UNCHANGED <<store, created, history>>

\* The listings as functions of the table: alice has sent bob nine invites
\* already, at one time and another by turns; she sends up to three more,
\* the first two invites may be accepted, and index pages are opened by every
\* user and by a visitor who is not logged in
ListAccepted == {gameIds[1], gameIds[2]}

ListSent == {gameIds[i] : i \in 1..(Len(gameIds) - 3)}

InitList ==
    /\ store = [g \in ListSent |-> NewGame(g, "alice", "bob", IdOrd(g) % 2)]
    /\ created = ListSent
    /\ reqs = EmptyBag
    /\ moved = [k \in {} |-> 0]
    /\ answered = [k \in {} |-> 0]

NextList ==
    \/ \E i \in Invitees, now \in Dates :
          /\ Cardinality(created) < Len(gameIds)
          /\ Play(1, "alice", i, gameIds[Cardinality(created) + 1], now)
    \/ \E g \in ListAccepted : AcceptRead(1, g)
    \/ \E r \in InFlight, now \in Dates : AcceptUpdate(r, now)
    \/ \E u \in Users \cup {None} : Index(1, u)
    \/ \E r \in InFlight : Render(r)

SpecList == InitList /\ [][NextList]_vars

\* Game pages keep being opened: a logged-in user's read of the game, and the
\* finalize that follows it, are taken whenever they stay possible.  One
\* writer and one game page at a time, on the top row, two cells of the middle
\* row and the attribute name Result
FairPositions == {squares[i] : i \in 1..5} \cup {"Result"}

Players == {"alice", "bob"}

NextFair == Step(1, 1, AllGameIds, FairPositions, Players)

SpecFair ==
    /\ Init
    /\ [][NextFair]_vars
    /\ WF_vars(\E g \in AllGameIds, u \in Players : GameRead(1, g, u))
    /\ WF_vars(\E r \in InFlight, now \in Dates : GameFinish(r, now))

\* Store failures: a call on DynamoDB fails for a reason that is no failed
\* condition, with a service error (boto's JSONResponseError, throttling for
\* one) or below boto (a socket error); nothing is written
Faults == {"JSONResponseError", "socket.error"}

\* what getGame comes to: an item, None, or the exception it lets through
getGameReturns(g, fault) ==
    IF fault = "JSONResponseError" THEN "None"
    ELSE IF fault # None THEN fault
    ELSE IF g \in DOMAIN store THEN "Item" ELSE "None"

\* what the write call of a handler in flight comes to: "True", "False",
\* "raise" for the ConditionalCheckFailedException of item.save(), or the
\* exception of the store failure it lets through
writeReturns(r, fault) ==
    CASE r.pc = "accept" ->
            IF fault # None THEN fault
            ELSE IF acceptGameInviteReturns(r) THEN "True" ELSE "False"
      [] r.pc = "reject" ->
            IF fault # None THEN "False"
            ELSE IF rejectGameInviteReturns(r) THEN "True" ELSE "False"
      [] r.pc = "select" ->
            IF fault # None THEN fault
            ELSE IF updateBoardAndTurnReturns(r) THEN "True" ELSE "False"
      [] r.pc = "finish" ->
            IF alreadyFinished(r.item) THEN "True"
            ELSE IF fault # None THEN fault
            ELSE changeGameToFinishedStateReturns(r, 0)

\* the write call of a handler in flight meets a store failure
Fault(r, fault) ==
    /\ r \in InFlight
    /\ r.pc \in Writers \cup Viewers
    /\ ~(r.pc = "finish" /\ alreadyFinished(r.item))
    /\ Return(r)
    /\ UNCHANGED <<store, created, history>>

NextFault ==
    \/ Step(1, 1, AllGameIds, Positions, Players)
    \/ \E r \in InFlight, fault \in Faults : Fault(r, fault)

SpecFault == Init /\ [][NextFault]_vars

\* checkForGameResult as a function of the board: the table holds one game in
\* progress between alice (host, O) and bob (X) whose nine cells are any of
\* "X", "O" and empty, whether play leads there or not; game pages are opened
\* on it
Markers == {"X", "O", " "}

BoardItem(board) ==
    LET base == Dict(<< <<"GameId", "g1">>, <<"HostId", "alice">>,
                        <<"StatusDate", StatusDate("IN_PROGRESS", 0)>>,
                        <<"OUser", "alice">>, <<"Turn", "bob">>,
                        <<"OpponentId", "bob">> >>)
        set == {squares[i] : i \in {j \in 1..9 : board[j] # " "}}
        at(a) == CHOOSE i \in 1..9 : squares[i] = a
    IN  [a \in (DOMAIN base) \cup set |->
            IF a \in DOMAIN base THEN base[a] ELSE board[at(a)]]

InitBoard ==
    /\ \E board \in [1..9 -> Markers] : store = [g \in {"g1"} |-> BoardItem(board)]
    /\ created = {"g1"}
    /\ reqs = EmptyBag
    /\ moved = [k \in {} |-> 0]
    /\ answered = [k \in {} |-> 0]

NextBoard ==
    \/ \E u \in Users : GameRead(1, "g1", u)
    \/ \E r \in InFlight, now \in Dates : GameFinish(r, now)

SpecBoard == InitBoard /\ [][NextBoard]_vars

----------------------------------------------------------------------------
\* What the claims speak of

Status(g) == Stored(g)["StatusDate"].status

InProgress(g) == BeginsWith(Stored(g), "IN_PROGRESS")

\* request r is in flight at pc and this step is its write and return
Finishes(r, pc) ==
    /\ r \in InFlight
    /\ r.pc = pc
    /\ reqs' = reqs (-) SetToBag({r})

\* two select requests in flight for the same cell of the same game
Racing(r1, r2) ==
    /\ r1 \in InFlight /\ r2 \in InFlight
    /\ r1.pc = "select" /\ r2.pc = "select"
    /\ r1 # r2 \/ reqs[r1] >= 2
    /\ r1.item["GameId"] = r2.item["GameId"]
    /\ r1.pos = r2.pos

\* the cell is empty, the game in progress and one of the two holds the turn
RaceOpen(r1, r2) ==
    LET g == r1.item["GameId"]
    IN  /\ Racing(r1, r2)
        /\ InProgress(g)
        /\ r1.pos \notin DOMAIN Stored(g)
        /\ Stored(g)["Turn"] \in {r1.user, r2.user}

C1_NeverBoth == \A k \in DOMAIN moved : moved[k] <= 1

C1_ExactlyOne ==
    \A r1, r2 \in InFlight :
        RaceOpen(r1, r2) /\ Finishes(r1, "select")
            => (updateBoardAndTurnReturns(r1) # updateBoardAndTurnReturns(r2)')

\* C1: of two concurrent updateBoardAndTurn calls for the same cell of the same
\* game (indeed of all calls for it, ever) at most one returns True; and when
\* the cell is empty, the game in progress and one of the two callers holds
\* the turn, the first of the two writes returns True exactly when the other,
\* evaluated right after it, returns False.
C1_SameCellRace == [] C1_NeverBoth /\ [][C1_ExactlyOne]_vars

\* C1 witness: two select requests for the same empty cell are in flight, both
\* past their read, the game in progress and the turn with one of them.
C1_Witness == \E r1, r2 \in InFlight : RaceOpen(r1, r2) /\ r1.pos \in Squares

C2_Step ==
    \A r \in InFlight :
        LET cur == Stored(r.item["GameId"])
        IN  /\ Finishes(r, "select")
            /\ \/ Get(cur, "Turn") # r.user
               \/ r.pos \in DOMAIN cur
               \/ ~BeginsWith(cur, "IN_PROGRESS")
            => ~updateBoardAndTurnReturns(r) /\ store' = store

\* C2: an updateBoardAndTurn call that finds the stored turn different from
\* the acting user, or the cell set, or the status not IN_PROGRESS (no record
\* included) returns False, and the table is the same before and after.
C2_RejectedMoveChangesNothing == [][C2_Step]_vars

\* C2 witness: one select request in flight is out of turn for an empty cell,
\* another is by the turn holder for a cell that is set.
C2_Witness ==
    \E r1, r2 \in InFlight :
        LET g == r1.item["GameId"]
        IN  /\ r1.pc = "select" /\ r2.pc = "select" /\ r2.item["GameId"] = g
            /\ InProgress(g)
            /\ Stored(g)["Turn"] # r1.user /\ r1.pos \notin DOMAIN Stored(g)
            /\ Stored(g)["Turn"] = r2.user /\ r2.pos \in Squares \cap DOMAIN Stored(g)

\* the participant of the game that user is not
OtherParticipant(item, user) ==
    IF user = item["HostId"] THEN item["OpponentId"] ELSE item["HostId"]

C3_Step ==
    \A g \in DOMAIN store :
        /\ \A r \in InFlight :
              /\ Finishes(r, "select")
              /\ r.item["GameId"] = g
              /\ updateBoardAndTurnReturns(r)
              => /\ store[g]["Turn"] = r.user
                 /\ r.user \in {store[g]["HostId"], store[g]["OpponentId"]}
                 /\ store'[g]["Turn"] = OtherParticipant(store[g], r.user)
                 /\ store'[g]["Turn"] # r.user
        /\ g \in DOMAIN store' /\ store'[g]["Turn"] # store[g]["Turn"]
              => \/ \E r \in InFlight :
                       /\ Finishes(r, "select")
                       /\ r.item["GameId"] = g
                       /\ updateBoardAndTurnReturns(r)
                 \/ store'[g]["Turn"] = "N/A"

\* C3: a successful updateBoardAndTurn is by the user stored in Turn, and
\* leaves Turn with the other participant; no other step changes Turn, but for
\* the finalize that sets it to "N/A".  So successive successful moves are
\* by different users and Turn alternates between HostId and OpponentId.
C3_TurnAlternates == [][C3_Step]_vars

\* C3 witness: three moves were made in a game, so the turn went to the host
\* and back twice.
C3_Witness ==
    \E g \in DOMAIN store :
        /\ Cardinality(Squares \cap DOMAIN store[g]) = 3
        /\ store[g]["Turn"] = store[g]["HostId"]

C4_Step ==
    /\ \A g \in (DOMAIN store) \cap (DOMAIN store') :
          \/ Status(g)' = Status(g)
          \/ /\ Status(g) = "PENDING" /\ Status(g)' = "IN_PROGRESS"
             /\ \E r \in InFlight : Finishes(r, "accept") /\ r.item["GameId"] = g
          \/ /\ Status(g) = "IN_PROGRESS" /\ Status(g)' = "FINISHED"
             /\ \E r \in InFlight : Finishes(r, "finish") /\ r.item["GameId"] = g
    /\ \A g \in (DOMAIN store') \ (DOMAIN store) :
          /\ Status(g)' = "PENDING"
          /\ g \notin created

\* C4: the status of a stored game changes only from PENDING to IN_PROGRESS,
\* in a step of acceptGameInvite, and from IN_PROGRESS to FINISHED, in a step
\* of changeGameToFinishedState; a record appears only PENDING, under a GameId
\* not used before.
C4_StatusOrder == [][C4_Step]_vars

\* C4 witness: a game went through both transitions, and requests are in
\* flight on it still.
C4_Witness ==
    \E g \in DOMAIN store : Status(g) = "FINISHED" /\ reqs # EmptyBag

C5_Step ==
    \A g \in DOMAIN store :
        \A c \in Squares \cap DOMAIN store[g] :
            /\ g \in DOMAIN store'
            /\ c \in DOMAIN store'[g]
            /\ store'[g][c] = store[g][c]

\* C5: a cell of a stored game that holds a marker holds the same marker after
\* every step.
C5_CellsKept == [][C5_Step]_vars

C6_Step ==
    \A g \in DOMAIN store :
        Status(g) = "FINISHED"
            => /\ g \in DOMAIN store'
               /\ \A a \in Squares \cup {"Turn", "Result"} :
                     Get(store'[g], a) = Get(store[g], a)

\* C6: the cells, the turn and the result of a FINISHED game are the same after
\* every step, and the record stays in the table.
C6_FinishedIsFinal == [][C6_Step]_vars

\* C6 witness: a game is FINISHED and a game page that read it before then is
\* still to save it; a select request on it is in flight too.
C6_Witness ==
    \E g \in DOMAIN store :
        /\ Status(g) = "FINISHED"
        /\ \E r1, r2 \in InFlight :
              /\ r1.pc = "finish" /\ r1.item["GameId"] = g /\ "Result" \notin DOMAIN r1.item
              /\ r2.pc = "select" /\ r2.item["GameId"] = g

C7_Step ==
    \A g \in DOMAIN store :
        LET old == Get(store[g], "Result")
        IN  /\ old # None => g \in DOMAIN store' /\ Get(store'[g], "Result") = old
            /\ old = None /\ g \in DOMAIN store' /\ Get(store'[g], "Result") # None
                  => /\ Status(g) # "FINISHED" /\ Status(g)' = "FINISHED"
                     /\ \E r \in InFlight : Finishes(r, "finish") /\ r.item["GameId"] = g

\* C7: Result goes from absent to a value only in a step of
\* changeGameToFinishedState that takes the status to FINISHED, and a Result,
\* once set, stays as it is.
C7_ResultSetOnce == [][C7_Step]_vars

\* C8: the Result of a stored game is absent, its HostId, its OpponentId or
\* "Tie".
C8_ResultIsParticipantOrTie ==
    \A g \in DOMAIN store :
        Get(store[g], "Result") \in
            {None, store[g]["HostId"], store[g]["OpponentId"], "Tie"}

\* the item holds a Result
HoldsResult(item) == "Result" \in DOMAIN item

C9_Step ==
    \A r \in InFlight :
        Finishes(r, "finish")
            => /\ HoldsResult(r.item)
                  => /\ \A now \in Dates : changeGameToFinishedStateReturns(r, now) = "True"
                     /\ store' = store
               /\ HoldsResult(Stored(r.item["GameId"])) => store' = store

\* C9: changeGameToFinishedState on an item that holds a Result returns True
\* and writes nothing; and no call of it changes a stored record that holds a
\* Result, so a record is written by at most one of two successive calls.
C9_FinalizeIdempotent == [][C9_Step]_vars

\* C9 witness: a game page read a game that holds a Result, found its board
\* terminal and is about to call changeGameToFinishedState.
C9_Witness ==
    \E r \in InFlight :
        /\ r.pc = "finish"
        /\ HoldsResult(r.item)
        /\ Stored(r.item["GameId"]) = r.item

C10_Step ==
    /\ \A g \in DOMAIN answered' : answered'[g] <= 1
    /\ \A r \in InFlight :
          /\ Count(answered, r.item["GameId"]) = 1
          /\ Finishes(r, "accept") \/ Finishes(r, "reject")
          => /\ r.pc = "accept" => ~acceptGameInviteReturns(r)
             /\ r.pc = "reject" => ~rejectGameInviteReturns(r)
             /\ store' = store

\* C10: of all acceptGameInvite and rejectGameInvite calls on a game at most
\* one returns True; after it every further call returns False and leaves the
\* table as it is (a rejected game is not created again).
C10_OneAnswer == [][C10_Step]_vars

\* C10 witness: an invite was answered, and an accept and a reject of the same
\* game are in flight still.
C10_Witness ==
    \E r1, r2 \in InFlight :
        /\ r1.pc = "accept" /\ r2.pc = "reject"
        /\ r1.item["GameId"] = r2.item["GameId"]
        /\ Count(answered, r1.item["GameId"]) = 1

----------------------------------------------------------------------------
\* The eight standard triples: three rows, three columns, two diagonals
Triples ==
    {{3 * r + c : c \in 1..3} : r \in 0..2}
        \cup {{3 * r + c : r \in 0..2} : c \in 1..3}
        \cup {{1, 5, 9}, {3, 5, 7}}

Completed(board, marker) == \E t \in Triples : \A i \in t : board[i] = marker

\* the marker a user is viewing the game with, and the other one
MarkerOf(item, user) == IF user = item["OUser"] THEN "O" ELSE "X"

OtherMarker(marker) == IF marker = "O" THEN "X" ELSE "O"

Board(g) == getBoardState(Stored(g))

DetectResult(g, user) == checkForGameResult(Board(g), Stored(g), user)

\* C11: for the board of every stored game and every viewer,
\* checkForGameResult returns Win if some standard triple is entirely the
\* viewer's marker and none is the other marker's, Lose if some triple is
\* entirely the other marker and none the viewer's, Tie if no cell is blank
\* and no triple is completed, and None if a cell is blank and no triple is
\* completed.
C11_DetectResult ==
    \A g \in DOMAIN store, u \in Users :
        LET yours  == MarkerOf(store[g], u)
            theirs == OtherMarker(yours)
            blank  == \E i \in 1..9 : Board(g)[i] = " "
            line   == Completed(Board(g), "X") \/ Completed(Board(g), "O")
        IN  /\ Completed(Board(g), yours) /\ ~Completed(Board(g), theirs)
                => DetectResult(g, u) = "Win"
            /\ Completed(Board(g), theirs) /\ ~Completed(Board(g), yours)
                => DetectResult(g, u) = "Lose"
            /\ ~blank /\ ~line => DetectResult(g, u) = "Tie"
            /\ blank /\ ~line => DetectResult(g, u) = None

\* C11 witness: a game page was opened on a board whose only completed triple
\* is a diagonal of the viewer's marker, and goes on to finish the game with
\* Win.
C11_Witness ==
    \E r \in InFlight :
        LET board == getBoardState(r.item)
            yours == MarkerOf(r.item, r.user)
        IN  /\ r.pc = "finish" /\ r.result = "Win"
            /\ \A i \in {1, 5, 9} : board[i] = yours
            /\ \A t \in Triples \ {{1, 5, 9}} : \E i \in t : board[i] # yours
            /\ ~Completed(board, OtherMarker(yours))

\* the participant playing X and the one playing O
XUser(item) == IF item["HostId"] = item["OUser"] THEN item["OpponentId"] ELSE item["HostId"]

OUser(item) == item["OUser"]

\* C12: for the board of every stored game, a completed triple of each marker
\* included, checkForGameResult returns Win for the user playing X exactly
\* when it returns Lose for the user playing O, and the other way round, and
\* it returns Tie (None) for one exactly when it returns Tie (None) for the
\* other.
C12_ParticipantsAgree ==
    \A g \in DOMAIN store :
        LET x == DetectResult(g, XUser(store[g]))
            o == DetectResult(g, OUser(store[g]))
        IN  /\ x = "Win" <=> o = "Lose"
            /\ x = "Lose" <=> o = "Win"
            /\ x = "Tie" <=> o = "Tie"
            /\ x = None <=> o = None

\* C12 witness: a participant opened the game page on a board that holds a
\* completed triple of each marker.
C12_Witness ==
    \E r \in InFlight :
        /\ r.pc = "finish"
        /\ r.user \in {XUser(r.item), OUser(r.item)}
        /\ Completed(getBoardState(r.item), "X")
        /\ Completed(getBoardState(r.item), "O")

----------------------------------------------------------------------------
C13_ValidOpponent ==
    \A g \in DOMAIN store :
        /\ Get(store[g], "OpponentId") \notin {None, ""}
        /\ Get(store[g], "OpponentId") # Get(store[g], "HostId")

C13_Step ==
    \A c \in Creators, i \in Invitees, g \in TwoGameIds, now \in Dates :
        Play(1, c, i, g, now) /\ (i = "" \/ i = c) => store' = store

\* C13: a create request whose invitee name is empty or the creator's own
\* leaves the table as it is, and every stored game has an OpponentId that is
\* not empty and differs from its HostId.
C13_InvalidOpponentRejected == [] C13_ValidOpponent /\ [][C13_Step]_vars

\* C13 witness: one game is stored, and a create request with an empty invitee
\* name and one with the creator's own name can be served.
C13_Witness ==
    /\ "g1" \in DOMAIN store
    /\ ENABLED Play(1, "alice", "", "g2", 0)
    /\ ENABLED Play(1, "alice", "alice", "g2", 0)

C14_PendingShape ==
    \A g \in DOMAIN store :
        BeginsWith(store[g], "PENDING")
            => (DOMAIN store[g]) \cap (Squares \cup {"Result"}) = {}

C14_Step ==
    \A c \in Creators, i \in Invitees, g \in TwoGameIds, now \in Dates :
        Play(1, c, i, g, now) /\ store' # store
            => /\ g \notin DOMAIN store
               /\ DOMAIN store' = (DOMAIN store) \cup {g}
               /\ \A h \in DOMAIN store : store'[h] = store[h]
               /\ BeginsWith(store'[g], "PENDING")
               /\ Get(store'[g], "HostId") = c
               /\ Get(store'[g], "OpponentId") = i
               /\ Get(store'[g], "OUser") = c
               /\ Get(store'[g], "Turn") = i
               /\ (DOMAIN store'[g]) \cap (Squares \cup {"Result"}) = {}

\* C14: a create request that is served adds exactly one record, PENDING, with
\* OUser the host and Turn the opponent, no cell and no Result, and leaves
\* every other record as it is; and a record holds no cell and no Result for
\* as long as it is PENDING.
C14_CreatedPending == [] C14_PendingShape /\ [][C14_Step]_vars

\* C14 witness: both games are stored, one still PENDING and the other with a
\* cell set: the later one was added beside the earlier.
C14_Witness ==
    \E g, h \in DOMAIN store :
        /\ g # h
        /\ BeginsWith(store[g], "PENDING")
        /\ (DOMAIN store[h]) \cap Squares # {}

C15_Step ==
    \A r \in InFlight :
        LET g == r.item["GameId"]
        IN  Finishes(r, "accept") /\ acceptGameInviteReturns(r)
            => /\ g \in DOMAIN store
               /\ DOMAIN store' = DOMAIN store
               /\ \A h \in DOMAIN store \ {g} : store'[h] = store[h]
               /\ DOMAIN store'[g] = DOMAIN store[g]
               /\ \A a \in DOMAIN store[g] \ {"StatusDate"} : store'[g][a] = store[g][a]
               /\ BeginsWith(store'[g], "IN_PROGRESS")

\* C15: an acceptGameInvite call that returns True changes the StatusDate of
\* its game to IN_PROGRESS and nothing else: GameId, HostId, OpponentId,
\* OUser, Turn, the cells and Result, and every other record, are as before.
C15_AcceptChangesStatusOnly == [][C15_Step]_vars

\* C15 witness: one of two stored games was accepted, the other is PENDING
\* still.
C15_Witness ==
    \E g, h \in DOMAIN store :
        /\ Count(answered, g) = 1
        /\ BeginsWith(store[g], "IN_PROGRESS")
        /\ BeginsWith(store[h], "PENDING")

----------------------------------------------------------------------------
\* a completed triple, or no blank cell
Terminal(board) ==
    \/ Completed(board, "X") \/ Completed(board, "O")
    \/ \A i \in 1..9 : board[i] # " "

\* C16: when the stored board of a game in progress is terminal and game pages
\* keep being opened on it, the game is eventually FINISHED and holds a
\* Result, whatever moves and other finalizes run beside the reads.
C16_EventuallyFinished ==
    \A g \in AllGameIds :
        (InProgress(g) /\ Terminal(Board(g)))
            ~> (BeginsWith(Stored(g), "FINISHED") /\ HoldsResult(Stored(g)))

----------------------------------------------------------------------------
DateOf(item) == item["StatusDate"].date

\* listing holds the most recent of the games S, the latest first: stored
\* records of S and none twice, as many as S has up to the page size, in
\* descending order of their timestamps, and no game of S that is left out is
\* later than one listed
MostRecentFirst(listing, S) ==
    /\ \A i \in 1..Len(listing) :
          /\ Get(listing[i], "GameId") \in S
          /\ listing[i] = store[listing[i]["GameId"]]
    /\ \A i, j \in 1..Len(listing) :
          i < j => /\ listing[i]["GameId"] # listing[j]["GameId"]
                   /\ DateOf(listing[i]) >= DateOf(listing[j])
    /\ Len(listing) = IF Cardinality(S) < PageSize THEN Cardinality(S) ELSE PageSize
    /\ \A g \in S \ {listing[i]["GameId"] : i \in 1..Len(listing)} :
          \A i \in 1..Len(listing) : DateOf(store[g]) <= DateOf(listing[i])

\* the games of a status in which user is host or opponent
GamesOf(user, status) ==
    {g \in DOMAIN store :
        /\ BeginsWith(store[g], status)
        /\ user \in {Get(store[g], "HostId"), Get(store[g], "OpponentId")}}

\* C17: getGamesWithStatus returns, for every user and each status the index
\* page asks for, the (at most ten) most recent games of that status in which
\* the user is host or opponent, ordered by timestamp descending.
C17_ListByStatus ==
    \A u \in Users, status \in {"IN_PROGRESS", "FINISHED"} :
        \A games \in getGamesWithStatus(u, status) :
            /\ games.raises = None
            /\ MostRecentFirst(games.value, GamesOf(u, status))

\* the PENDING games user is invited to
InvitesOf(user) ==
    {g \in DOMAIN store :
        BeginsWith(store[g], "PENDING") /\ Get(store[g], "OpponentId") = user}

\* C18: getGameInvites returns, for every user, PENDING records whose
\* OpponentId is the user only, at most ten, the most recent first, and the
\* ten most recent when there are more; for no user it returns the empty
\* list.
C18_ListInvites ==
    /\ getGameInvites(None) = << >>
    /\ \A u \in Users : MostRecentFirst(getGameInvites(u), InvitesOf(u))

\* C18 witness: an index page was read for a user who has more than ten
\* invites PENDING and one accepted; it lists ten invites, not in the order
\* they were sent, and the last one sent is among them.
C18_Witness ==
    \E r \in InFlight :
        /\ r.pc = "index" /\ r.result.raises = None
        /\ Cardinality(InvitesOf(r.user)) > PageSize
        /\ Cardinality(GamesOf(r.user, "IN_PROGRESS")) = 1
        /\ r.result.value.invites = getGameInvites(r.user)
        /\ Len(r.result.value.invites) = PageSize
        /\ \E i \in 1..(PageSize - 1) :
              IdOrd(r.result.value.invites[i]["GameId"])
                  > IdOrd(r.result.value.invites[i + 1]["GameId"])
        /\ gameIds[Len(gameIds)] \in
              {r.result.value.invites[i]["GameId"] : i \in 1..PageSize}

----------------------------------------------------------------------------
\* how each call reports a failed precondition: StaleInvite and IllegalMove
\* are a return of False, the failed save of a finalize is its exception,
\* and RecordNotFound is getGame returning None
PreconditionFailure(pc) == IF pc = "finish" THEN "raise" ELSE "False"

C19_Lookup ==
    \A g \in DOMAIN store, fault \in Faults : getGameReturns(g, fault) # "None"

C19_Step ==
    \A r \in InFlight :
        /\ \A fault \in Faults :
              Fault(r, fault) => writeReturns(r, fault) # PreconditionFailure(r.pc)
        /\ Finishes(r, r.pc) /\ writeReturns(r, None) = PreconditionFailure(r.pc)
              => store' = store

\* C19: a store failure that is no failed precondition is reported by getGame,
\* acceptGameInvite, rejectGameInvite, updateBoardAndTurn and
\* changeGameToFinishedState as something other than a failed precondition
\* (False, None for a record not found), and a call whose precondition fails
\* writes nothing and is over: it is not tried again.
C19_FailuresReported == [] C19_Lookup /\ [][C19_Step]_vars

----------------------------------------------------------------------------
C20_Step ==
    \A r \in InFlight :
        LET g == r.item["GameId"]
        IN  Finishes(r, "select") /\ updateBoardAndTurnReturns(r)
            => /\ g \in DOMAIN store /\ DOMAIN store' = DOMAIN store
               /\ \A h \in DOMAIN store \ {g} : store'[h] = store[h]
               /\ \E c \in Squares \ DOMAIN store[g] :
                     /\ DOMAIN store'[g] = (DOMAIN store[g]) \cup {c}
                     /\ store'[g][c] = IF r.user = store[g]["OUser"] THEN "O" ELSE "X"
               /\ store'[g]["Turn"] # store[g]["Turn"]
               /\ \A a \in DOMAIN store[g] \ {"Turn"} : store'[g][a] = store[g][a]

\* C20: an updateBoardAndTurn call that returns True, whatever cell name was
\* posted, sets exactly one of the nine squares, empty before, to O if the
\* caller is OUser and to X otherwise, and changes Turn; GameId, HostId,
\* OpponentId, OUser, StatusDate, Result and the other squares are as before
\* and no other attribute is added.
C20_MoveChangesOneCell == [][C20_Step]_vars

----------------------------------------------------------------------------
\* C21: of every stored game, 'StatusDate begins with FINISHED', 'Turn is
\* "N/A"' and 'Result is set' are all true or all false; while they are false
\* Turn is the HostId or the OpponentId.
C21_FinishedTogether ==
    \A g \in DOMAIN store :
        LET item == store[g]
            finished == BeginsWith(item, "FINISHED")
        IN  /\ finished <=> Get(item, "Turn") = "N/A"
            /\ finished <=> HoldsResult(item)
            /\ ~finished => Get(item, "Turn") \in {item["HostId"], item["OpponentId"]}

----------------------------------------------------------------------------
C22_OneLine ==
    \A g \in DOMAIN store : ~(Completed(Board(g), "X") /\ Completed(Board(g), "O"))

C22_Step ==
    \A r \in InFlight :
        Finishes(r, "select") /\ updateBoardAndTurnReturns(r)
            => LET board == Board(r.item["GameId"])
               IN  ~Completed(board, "X") /\ ~Completed(board, "O")

\* C22: once the stored board of a game holds a completed triple no
\* updateBoardAndTurn call on the game returns True, and no stored board
\* holds a completed triple of X and one of O.
C22_NoMoveAfterLine == [] C22_OneLine /\ [][C22_Step]_vars

----------------------------------------------------------------------------
Full(board) == \A i \in 1..9 : board[i] # " "

\* C23: of every stored game that is FINISHED, a Result other than "Tie" is
\* the HostId or the OpponentId and the marker of that user (O for the OUser,
\* X for the other) fills a completed triple of the stored board; a Result of
\* "Tie" goes with a stored board that is full and has no completed triple.
\* (The record keeps no order of moves, so which of two completed triples
\* came first is not part of this statement.)
C23_ResultMatchesBoard ==
    \A g \in DOMAIN store :
        LET item == store[g]
            result == Get(item, "Result")
        IN  BeginsWith(item, "FINISHED") /\ HoldsResult(item) =>
                IF result = "Tie"
                THEN /\ Full(Board(g))
                     /\ ~Completed(Board(g), "X")
                     /\ ~Completed(Board(g), "O")
                ELSE /\ result \in {item["HostId"], item["OpponentId"]}
                     /\ Completed(Board(g), MarkerOf(item, result))

----------------------------------------------------------------------------
Cells(board, marker) == Cardinality({i \in 1..9 : board[i] = marker})

\* C24: of every stored game the number of X cells minus the number of O
\* cells is 0 or 1, and while the game is IN_PROGRESS its Turn is the
\* OpponentId exactly when the two numbers are equal and the HostId exactly
\* when there is one X more.
C24_CountsAndTurn ==
    \A g \in DOMAIN store :
        LET item == store[g]
            lead == Cells(Board(g), "X") - Cells(Board(g), "O")
        IN  /\ lead \in {0, 1}
            /\ InProgress(g) =>
                    /\ Get(item, "Turn") = item["OpponentId"] <=> lead = 0
                    /\ Get(item, "Turn") = item["HostId"] <=> lead = 1

====
